---- MODULE Spec2Model ----
(***************************************************************************)
(* Model of src/Algebra/binPow.py: binpow(a, n), iterative binary          *)
(* exponentiation.                                                         *)
(*                                                                         *)
(* Spec      runs one call of binpow line by line (pc is the next line).   *)
(* FairSpec  is Spec with weak fairness: the interpreter keeps running.    *)
(* SpecAlg   draws (base, m, n) and applies binpow as a function, for the  *)
(*           relations between several calls.                              *)
(***************************************************************************)
EXTENDS Integers, Sequences, FiniteSets, TLC

\* ---- bounds of the model ----------------------------------------------
MaxBase == 3
MaxExp == 6
MaxNegExp == 2
MaxSplit == 3

Bases == (0 - MaxBase)..MaxBase
Exponents == (0 - MaxNegExp)..MaxExp
SplitExponents == 0..MaxSplit

\* ---- the arithmetic of the loop body ----------------------------------
\* line 12: result = 1
Identity == 1

\* slips of line 13: "while n >= 0", "while n" (n != 0), "while n > 1"
LoopCondGe(n) == n >= 0
LoopCondNonZero(n) == n # 0
LoopCondGtOne(n) == n > 1

\* line 13: while n > 0
LoopCond(n) == n > 0

\* slip of line 14: the bit test inverted, "if not n & 1"
LowBitClear(n) == n % 2 = 0

\* line 14: if n & 1   (reached with n > 0 only, where n & 1 = n mod 2)
LowBitSet(n) == n % 2 = 1

\* slip of line 15: "result = a"
MulStepAssign(r, a) == a

\* line 15: result *= a
MulStep(r, a) == r * a

\* slips of line 16: "a *= 2", and the squaring left out
SquareStepDouble(a) == a * 2
SquareStepSkip(a) == a

\* line 16: a *= a
SquareStep(a) == a * a

\* slips of line 17: "n -= 1", "n >>= 2"
ShiftStepDecrement(n) == n - 1
ShiftStepTwoBits(n) == n \div 4

\* line 17: n >>= 1   (floor halving)
ShiftStep(n) == n \div 2

\* ---- binpow as a function: the loop of lines 12-18 unrolled ------------
RECURSIVE binpowLoop(_, _, _)
binpowLoop(r, a, n) ==
    IF LoopCond(n)
    THEN binpowLoop(IF LowBitSet(n) THEN MulStep(r, a) ELSE r,
                    SquareStep(a), ShiftStep(n))
    ELSE r

binpow(a, n) == binpowLoop(Identity, a, n)

\* ---- reference mathematics (not code) ----------------------------------
\* a^n as n-fold repeated multiplication starting from 1 (0^0 = 1)
RECURSIVE Pow(_, _)
Pow(a, n) == IF n <= 0 THEN 1 ELSE a * Pow(a, n - 1)

\* floor(log2(n)) for n >= 1
FloorLog2(n) == CHOOSE k \in 0..n : Pow(2, k) <= n /\ n < Pow(2, k + 1)

\* bit k of n, n >= 0
Bit(n, k) == (n \div Pow(2, k)) % 2

\* ---- state --------------------------------------------------------------
VARIABLES
    pc,      \* next line of binpow to run: "while","if","mul","sq","shift","return","done"; "idle" in SpecAlg
    a,       \* local a
    n,       \* local n
    result,  \* local result
    a0,      \* the argument a as passed
    n0,      \* the argument n as passed
    iters,   \* completed loop iterations
    xpc,     \* SpecAlg: "args", "sum", "double"; "idle" in Spec
    xb,      \* SpecAlg: base
    xm,      \* SpecAlg: first exponent
    xn,      \* SpecAlg: second exponent
    xout     \* SpecAlg: the values returned by the calls

stepVars == <<pc, a, n, result, a0, n0, iters>>
algVars == <<xpc, xb, xm, xn, xout>>
vars == <<pc, a, n, result, a0, n0, iters, xpc, xb, xm, xn, xout>>

AlgIdle == xpc = "idle" /\ xb = 0 /\ xm = 0 /\ xn = 0 /\ xout = <<>>
StepIdle == pc = "idle" /\ a = 0 /\ n = 0 /\ result = 0 /\ a0 = 0 /\ n0 = 0 /\ iters = 0

\* ---- one call, line by line ---------------------------------------------
\* lines 1-12: the call binds a and n, then result = 1
Init ==
    /\ a0 \in Bases
    /\ n0 \in Exponents
    /\ a = a0
    /\ n = n0
    /\ result = Identity
    /\ iters = 0
    /\ pc = "while"
    /\ AlgIdle

\* line 13, condition true: enter the body
WhileEnter ==
    /\ pc = "while"
    /\ LoopCond(n)
    /\ pc' = "if"
    /\ UNCHANGED <<a, n, result, a0, n0, iters>>
    /\ UNCHANGED algVars

\* line 13, condition false: fall through to the return
WhileExit ==
    /\ pc = "while"
    /\ ~LoopCond(n)
    /\ pc' = "return"
    /\ UNCHANGED <<a, n, result, a0, n0, iters>>
    /\ UNCHANGED algVars

\* line 14: if n & 1
IfTest ==
    /\ pc = "if"
    /\ pc' = IF LowBitSet(n) THEN "mul" ELSE "sq"
    /\ UNCHANGED <<a, n, result, a0, n0, iters>>
    /\ UNCHANGED algVars

\* line 15: result *= a
Mul ==
    /\ pc = "mul"
    /\ result' = MulStep(result, a)
    /\ pc' = "sq"
    /\ UNCHANGED <<a, n, a0, n0, iters>>
    /\ UNCHANGED algVars

\* line 16: a *= a
Square ==
    /\ pc = "sq"
    /\ a' = SquareStep(a)
    /\ pc' = "shift"
    /\ UNCHANGED <<n, result, a0, n0, iters>>
    /\ UNCHANGED algVars

\* line 17: n >>= 1, end of one iteration
Shift ==
    /\ pc = "shift"
    /\ n' = ShiftStep(n)
    /\ iters' = iters + 1
    /\ pc' = "while"
    /\ UNCHANGED <<a, result, a0, n0>>
    /\ UNCHANGED algVars

\* line 18: return result
Return ==
    /\ pc = "return"
    /\ pc' = "done"
    /\ UNCHANGED <<a, n, result, a0, n0, iters>>
    /\ UNCHANGED algVars

Next ==
    \/ WhileEnter
    \/ WhileExit
    \/ IfTest
    \/ Mul
    \/ Square
    \/ Shift
    \/ Return

Spec == Init /\ [][Next]_vars

\* the interpreter never stops in the middle of a call
FairSpec == Init /\ [][Next]_vars /\ WF_vars(Next)

\* ---- binpow applied as a function ---------------------------------------
InitAlg ==
    /\ xb \in Bases
    /\ xm \in SplitExponents
    /\ xn \in SplitExponents
    /\ xout = <<>>
    /\ xpc = "args"
    /\ StepIdle

\* binpow(b, m + n), binpow(b, m), binpow(b, n)
ApplySum ==
    /\ xpc = "args"
    /\ xout' = <<binpow(xb, xm + xn), binpow(xb, xm), binpow(xb, xn)>>
    /\ xpc' = "sum"
    /\ UNCHANGED <<xb, xm, xn>>
    /\ UNCHANGED stepVars

\* binpow(b, 2*n), binpow(b, n)
ApplyDouble ==
    /\ xpc = "args"
    /\ xout' = <<binpow(xb, 2 * xn), binpow(xb, xn)>>
    /\ xpc' = "double"
    /\ UNCHANGED <<xb, xm, xn>>
    /\ UNCHANGED stepVars

NextAlg ==
    \/ ApplySum
    \/ ApplyDouble

SpecAlg == InitAlg /\ [][NextAlg]_vars

\* ======================= properties =====================================

\* C1: for every integer base and every exponent n >= 0 the value returned
\* by binpow(a, n) is a^n, the n-fold repeated product of a starting from 1.
C1_ReturnsPower ==
    (pc = "done" /\ n0 >= 0) => result = Pow(a0, n0)

C1_Witness ==
    pc = "done" /\ a0 = 3 /\ n0 = 5 /\ result = 243 /\ iters = 3

\* C2: with exponent 0 the loop body is never entered and the initial
\* accumulator 1 is what is returned, for every base, 0 included.
C2_ZeroExponent ==
    n0 = 0 => /\ pc \in {"while", "return", "done"}
              /\ iters = 0
              /\ result = 1

C2_Witness ==
    pc = "done" /\ n0 = 0 /\ a0 = 0 /\ result = 1 /\ iters = 0

\* C3: with a negative exponent the call runs no loop iteration, reaches the
\* return statement and returns 1, for every base.
C3_NegativeExponent ==
    n0 < 0 => /\ pc \in {"while", "return", "done"}
              /\ iters = 0
              /\ result = 1
              /\ n = n0

C3_Witness ==
    pc = "done" /\ n0 < 0 /\ a0 = 2 /\ result = 1 /\ iters = 0

\* C4: multiplicative consistency, binpow(a, m + n) = binpow(a, m) * binpow(a, n)
\* for every integer base and non-negative m, n.
C4_Multiplicative ==
    xpc = "sum" => xout[1] = xout[2] * xout[3]

C4_Witness ==
    xpc = "sum" /\ xb = 0 - 2 /\ xm = 3 /\ xn = 2 /\ xout = <<0 - 32, 0 - 8, 4>>

\* C5: squaring consistency, binpow(a, 2n) = binpow(a, n) * binpow(a, n)
\* for every integer base and non-negative n.
C5_Squaring ==
    xpc = "double" => xout[1] = xout[2] * xout[2]

C5_Witness ==
    xpc = "double" /\ xb = 3 /\ xn = 3 /\ xout = <<729, 27>>

\* C6: a call runs exactly floor(log2(n)) + 1 loop iterations when n >= 1
\* and exactly 0 when n = 0, whatever the base; it never runs more on the way.
C6_IterationCount ==
    /\ (n0 >= 1) => iters <= FloorLog2(n0) + 1
    /\ (pc = "done" /\ n0 >= 1) => iters = FloorLog2(n0) + 1
    /\ (n0 = 0) => iters = 0

C6_Witness ==
    pc = "done" /\ n0 = 5 /\ a0 = 2 /\ iters = 3

\* C7: for a negative base and exponent n >= 0 the returned value is
\* strictly negative when n is odd and strictly positive when n is even.
C7_Sign ==
    (pc = "done" /\ a0 < 0 /\ n0 >= 0) =>
        IF n0 % 2 = 1 THEN result < 0 ELSE result > 0

C7_Witness ==
    pc = "done" /\ a0 = 0 - 2 /\ n0 = 3 /\ result = 0 - 8

\* C8: loop invariant: at every iteration boundary (the while test, before
\* the first iteration, after each iteration and at exit), for n0 >= 0,
\* result * a^n = a0^n0 and n >= 0.
C8_LoopInvariant ==
    (pc \in {"while", "return", "done"} /\ n0 >= 0) =>
        /\ n >= 0
        /\ result * Pow(a, n) = Pow(a0, n0)

C8_Witness ==
    pc = "while" /\ a0 = 2 /\ n0 = 6 /\ iters = 2 /\ a = 16 /\ n = 1 /\ result = 4

\* C9: termination: every call eventually returns; the statement that ends an
\* iteration strictly decreases n (to floor(n/2), never below 0) and nothing
\* else changes n; the loop is left exactly when n is 0 (for n0 >= 0).
C9_Termination ==
    /\ <>(pc = "done")
    /\ [][ /\ (pc = "shift" => (n' < n /\ n' >= 0 /\ 2 * n' <= n /\ n <= 2 * n' + 1))
           /\ (pc # "shift" => n' = n)
           /\ ((pc = "while" /\ n0 >= 0) => (pc' = "return" <=> n = 0)) ]_vars
    /\ []((pc \in {"return", "done"} /\ n0 >= 0) => n = 0)

C9_Witness ==
    pc = "done" /\ n0 = 6 /\ n = 0 /\ iters = 3

\* C10: bit decomposition: for n0 >= 0, at the start of iteration k the local
\* a is a0^(2^k) and the local n is floor(n0 / 2^k); the accumulator holds the
\* product of the contributions of the bits below k; iteration k multiplies
\* result by a exactly when bit k of n0 is 1 and leaves it alone otherwise.
C10_BitDecomposition ==
    /\ []((pc \in {"while", "if", "mul"} /\ n0 >= 0) =>
            /\ a = Pow(a0, Pow(2, iters))
            /\ n = n0 \div Pow(2, iters)
            /\ result = Pow(a0, n0 % Pow(2, iters)))
    /\ [][ /\ ((pc = "if" /\ n0 >= 0) => (pc' = "mul" <=> Bit(n0, iters) = 1))
           /\ (pc = "mul" => result' = result * a)
           /\ (pc # "mul" => result' = result) ]_vars

C10_Witness ==
    pc = "mul" /\ a0 = 3 /\ n0 = 5 /\ iters = 2 /\ a = 81 /\ n = 1 /\ result = 3

====
